---- MODULE Spec2Model ----
(***************************************************************************)
(* A model of Source/Core/S2Cell.js: the S2 cell identifier codec, the      *)
(* parent/child navigation of S2Cell objects, the Hilbert lookup tables     *)
(* and the decode of an identifier into (face, si, ti) and a cube point.    *)
(*                                                                         *)
(* JavaScript BigInt values are arbitrary-precision two's complement        *)
(* integers.  TLC's own integers are 32 bits wide, so a BigInt (and any     *)
(* Number that may leave the 31-bit range) is written as a record           *)
(*      [bits |-> S, neg |-> b]     with S a subset of 0..BigIntWidth-1     *)
(* whose value is  (sum of 2^p for p in S) - (IF b THEN 2^BigIntWidth       *)
(* ELSE 0): the low BigIntWidth bits of the two's complement form, and the  *)
(* sign bit that repeats for ever above them.                               *)
(***************************************************************************)
EXTENDS Integers, Sequences, FiniteSets, TLC

VARIABLES
  hostBigInt,         \* whether the host defines the global BigInt
  detectsBigInt,      \* what FeatureDetection.supportsBigInt() answers
  cell,               \* the S2Cell the caller holds: [cellId, level], or NoCell
  from,               \* how the caller obtained it: the call and its receiver
  depth,              \* number of getChild/getParent results adopted in a row
  ret,                \* the last call and its outcome
  arg,                \* the identifier handed to the static codec functions
  S2LookupPositions,  \* module-level table, [] until first use
  S2LookupIJ          \* module-level table, [] until first use

vars == <<hostBigInt, detectsBigInt, cell, from, depth, ret, arg, S2LookupPositions, S2LookupIJ>>

\* Number of explicit low bits kept for a two's complement integer.
BigIntWidth == 72

Bit == 0..(BigIntWidth - 1)

Zero == [bits |-> {}, neg |-> FALSE]

Pow2(p) == [bits |-> {p}, neg |-> FALSE]

\* ~x
Not(x) == [bits |-> Bit \ x.bits, neg |-> ~x.neg]

\* x & y
And(x, y) == [bits |-> x.bits \cap y.bits, neg |-> x.neg /\ y.neg]

\* x | y
Or(x, y) == [bits |-> x.bits \cup y.bits, neg |-> x.neg \/ y.neg]

\* x ^ y
Xor(x, y) ==
  [bits |-> (x.bits \ y.bits) \cup (y.bits \ x.bits), neg |-> x.neg # y.neg]

\* x + y, bit by bit.  A carry enters bit i when some lower bit j generates one
\* (both operands have it) and no bit between j and i absorbs it (neither
\* operand has it).  The sign is the sum's bit at position BigIntWidth.
Add(x, y) ==
  LET generate == x.bits \cap y.bits
      absorb == Bit \ (x.bits \cup y.bits)
      CarryInto(i) ==
        \E j \in generate : j < i /\ \A k \in absorb : k < j \/ k >= i
  IN  [bits |-> {i \in Bit : ((i \in x.bits) # (i \in y.bits)) # CarryInto(i)},
       neg |-> (x.neg # y.neg) # CarryInto(BigIntWidth)]

\* -x
Neg(x) == Add(Not(x), [bits |-> {0}, neg |-> FALSE])

\* x - y
Sub(x, y) == Add(x, Neg(y))

\* x >> k (arithmetic: the sign fills from above)
Shr(x, k) ==
  [bits |-> {b - k : b \in {c \in x.bits : c >= k}}
              \cup (IF x.neg THEN {b \in Bit : b >= BigIntWidth - k} ELSE {}),
   neg |-> x.neg]

\* x << k
Shl(x, k) ==
  [bits |-> {b + k : b \in {c \in x.bits : c + k < BigIntWidth}}, neg |-> x.neg]

IsZero(x) == x.bits = {} /\ ~x.neg

IsPositive(x) == ~x.neg /\ x.bits # {}

\* x < y: by sign, then by the highest bit in which the two differ
Less(x, y) ==
  IF x.neg # y.neg THEN x.neg
  ELSE \E b \in y.bits \ x.bits : \A c \in x.bits \ y.bits : c < b

RECURSIVE NatBits(_, _)
NatBits(n, p) ==
  IF n = 0 THEN {}
  ELSE (IF n % 2 = 1 THEN {p} ELSE {}) \cup NatBits(n \div 2, p + 1)

\* BigInt(n) for a small integral Number n
BigInt(n) ==
  IF n >= 0 THEN [bits |-> NatBits(n, 0), neg |-> FALSE]
  ELSE Neg([bits |-> NatBits(-n, 0), neg |-> FALSE])

HighestBit(bits) == CHOOSE b \in bits : \A c \in bits : c <= b

LowestBit(bits) == CHOOSE b \in bits : \A c \in bits : b <= c

\* x times the bits lo..hi of the non-negative y: the sum of the shifted
\* copies of x, added pairwise.
RECURSIVE MulRange(_, _, _, _)
MulRange(x, ybits, lo, hi) ==
  IF lo = hi
  THEN (IF lo \in ybits THEN Shl(x, lo) ELSE Zero)
  ELSE LET mid == (lo + hi) \div 2
       IN  Add(MulRange(x, ybits, lo, mid), MulRange(x, ybits, mid + 1, hi))

\* x * y
Mul(x, y) ==
  IF y.neg
  THEN Neg(MulRange(x, Neg(y).bits, 0, BigIntWidth - 1))
  ELSE IF y.bits = {} THEN Zero
  ELSE MulRange(x, y.bits, LowestBit(y.bits), HighestBit(y.bits))

-----------------------------------------------------------------------------
(* Constants of S2Cell.js *)

S2MaxLevel == 30

S2FaceBits == 3

S2PositionBits == 2 * S2MaxLevel + 1

S2LookupBits == 4

S2SwapMask == 1

S2InvertMask == 2

S2PosToIJ == << <<0, 1, 3, 2>>, <<0, 2, 3, 1>>, <<3, 2, 0, 1>>, <<3, 1, 0, 2>> >>

\* [S2SwapMask, 0, 0, S2SwapMask | S2InvertMask]
S2PosToOrientationMask == <<S2SwapMask, 0, 0, S2SwapMask + S2InvertMask>>

-----------------------------------------------------------------------------
(* Strings: a string is the sequence of its UTF-16 code units, 0..65535. *)

Digits == "0123456789"

UpperCase == "ABCDEFGHIJKLMNOPQRSTUVWXYZ"

LowerCase == "abcdefghijklmnopqrstuvwxyz"

\* The code unit of a character written in this module: a digit, a letter, a
\* space or a minus sign.
CodeUnit(c) ==
  CASE c = " " -> 32
    [] c = "-" -> 45
    [] \E k \in 1..10 : SubSeq(Digits, k, k) = c ->
         47 + (CHOOSE k \in 1..10 : SubSeq(Digits, k, k) = c)
    [] \E k \in 1..26 : SubSeq(UpperCase, k, k) = c ->
         64 + (CHOOSE k \in 1..26 : SubSeq(UpperCase, k, k) = c)
    [] \E k \in 1..26 : SubSeq(LowerCase, k, k) = c ->
         96 + (CHOOSE k \in 1..26 : SubSeq(LowerCase, k, k) = c)

\* The string literal "..." as the sequence of its code units.
RECURSIVE StrFrom(_, _)
StrFrom(literal, k) ==
  IF k > Len(literal) THEN <<>>
  ELSE <<CodeUnit(SubSeq(literal, k, k))>> \o StrFrom(literal, k + 1)

Str(literal) == StrFrom(literal, 1)

\* The literals "X", "0x", "-" and "0" of the source.
LiteralX == Str("X")

Literal0x == Str("0x")

LiteralMinus == Str("-")

Literal0 == Str("0")

HexDigits == Str("0123456789abcdef")

HexDigitsUpper == Str("0123456789ABCDEF")

\* [0-9a-fA-F]
IsHexChar(c) == \E k \in 1..16 : HexDigits[k] = c \/ HexDigitsUpper[k] = c

HexValue(c) == (CHOOSE k \in 1..16 : HexDigits[k] = c \/ HexDigitsUpper[k] = c) - 1

\* Whether bit r (weight 2^r) of the nibble value v is set.
NibbleBit(v, r) == (v \div (2 ^ r)) % 2 = 1

\* The integer a string of hexadecimal digits denotes, most significant first.
ParseHex(str) ==
  [bits |-> {q \in Bit :
               /\ q \div 4 < Len(str)
               /\ NibbleBit(HexValue(str[Len(str) - (q \div 4)]), q % 4)},
   neg |-> FALSE]

\* The value of the nibble at bits 4q..4q+3 of a bit set.
NibbleAt(bits, q) ==
  (IF 4 * q \in bits THEN 1 ELSE 0) + (IF 4 * q + 1 \in bits THEN 2 ELSE 0)
    + (IF 4 * q + 2 \in bits THEN 4 ELSE 0) + (IF 4 * q + 3 \in bits THEN 8 ELSE 0)

\* Hexadecimal digits of a non-negative integer, no leading zeros ("0" for 0).
HexOfMagnitude(x) ==
  LET n == IF x.bits = {} THEN 1 ELSE (HighestBit(x.bits) \div 4) + 1
  IN  [k \in 1..n |-> HexDigits[NibbleAt(x.bits, n - k) + 1]]

\* BigInt.prototype.toString(16)
ToString16(x) == IF x.neg THEN LiteralMinus \o HexOfMagnitude(Neg(x)) ELSE HexOfMagnitude(x)

\* str.replace(/0*$/, "")
StripTrailingZeros(str) ==
  LET keep == {k \in 1..Len(str) : str[k] # Literal0[1]}
  IN  IF keep = {} THEN <<>> ELSE SubSeq(str, 1, HighestBit(keep))

\* "0".repeat(n) for n >= 0
RepeatZero(n) == [k \in 1..n |-> Literal0[1]]

-----------------------------------------------------------------------------
(* Outcome of a call: a returned value, or the error it throws. *)

Returns(v) == [throws |-> "", val |-> v]

Throws(e) == [throws |-> e, val |-> Zero]

-----------------------------------------------------------------------------
(* Identifier codec *)

lsb(cellId) == And(cellId, Add(Not(cellId), BigInt(1)))

\* BigInt("0x1555555555555555")
LevelMarkerMask ==
  ParseHex(Str("1555555555555555"))

\* isValidId without the test of the face bits.
isValidIdNoFaceTest(cellId) ==
  IF ~IsPositive(cellId) THEN FALSE
  ELSE IF IsZero(And(lsb(cellId), LevelMarkerMask)) THEN FALSE
  ELSE TRUE

isValidId(cellId) ==
  IF ~IsPositive(cellId) THEN FALSE
  ELSE IF Less(BigInt(5), Shr(cellId, S2PositionBits)) THEN FALSE
  ELSE IF IsZero(And(lsb(cellId), LevelMarkerMask)) THEN FALSE
  ELSE TRUE

\* The white space and line terminators that BigInt(string) trims: TAB, LF,
\* VT, FF, CR, space, U+00A0, U+1680, U+2000 to U+200A, U+2028, U+2029, U+202F,
\* U+205F, U+3000 and U+FEFF.
WhiteSpace ==
  {9, 10, 11, 12, 13, 32, 160, 5760} \cup (8192..8202)
    \cup {8232, 8233, 8239, 8287, 12288, 65279}

\* The string without its leading and trailing white space.
TrimString(str) ==
  LET keep == {k \in 1..Len(str) : str[k] \notin WhiteSpace}
  IN  IF keep = {} THEN <<>> ELSE SubSeq(str, LowestBit(keep), HighestBit(keep))

\* BigInt(str) of a string that begins with "0x": the string is trimmed, and
\* what follows the prefix must be one or more hexadecimal digits.
StringToBigInt(str) ==
  LET trimmed == TrimString(str)
      digits == SubSeq(trimmed, 3, Len(trimmed))
  IN  IF Len(trimmed) < 3 \/ SubSeq(trimmed, 1, 2) # Literal0x THEN Throws("SyntaxError")
      ELSE IF \E k \in 1..Len(digits) : ~IsHexChar(digits[k]) THEN Throws("SyntaxError")
      ELSE Returns(ParseHex(digits))

getIdFromToken(token) ==
  IF token = LiteralX THEN Returns(BigInt(0))
  ELSE IF 16 - Len(token) < 0 THEN Throws("RangeError")
  ELSE StringToBigInt(Literal0x \o token \o RepeatZero(16 - Len(token)))

TokenRegexTest(token) ==
  /\ Len(token) \in 1..16
  /\ \A k \in 1..Len(token) : IsHexChar(token[k])

isValidToken(token) ==
  IF ~TokenRegexTest(token) THEN FALSE
  ELSE isValidId(getIdFromToken(token).val)

getTokenFromId(cellId) ==
  IF cellId = BigInt(0) THEN LiteralX
  ELSE StripTrailingZeros(ToString16(cellId))

\* The loop of getLevel: the number of one-bit right shifts until bit 0 is set.
LsbPosition(cellId) == IF cellId.bits = {} THEN 0 ELSE LowestBit(cellId.bits)

\* getLevel without halving the position of the lowest set bit.
getLevelNoHalving(cellId) ==
  IF ~isValidId(cellId) THEN [throws |-> "DeveloperError", level |-> 0]
  ELSE [throws |-> "", level |-> S2MaxLevel - LsbPosition(cellId)]

getLevel(cellId) ==
  IF ~isValidId(cellId) THEN [throws |-> "DeveloperError", level |-> 0]
  ELSE [throws |-> "", level |-> S2MaxLevel - (LsbPosition(cellId) \div 2)]

-----------------------------------------------------------------------------
(* S2Cell objects *)

NoCell == [cellId |-> Zero, level |-> -1]

\* A JavaScript argument: a BigInt, or undefined (a missing argument).
BigIntArg(x) == [type |-> "bigint", val |-> x]

UndefinedArg == [type |-> "undefined", val |-> Zero]

defined(a) == a.type # "undefined"

\* FeatureDetection.supportsBigInt()
supportsBigInt == detectsBigInt

Error(kind, message) == [throws |-> kind, msg |-> message, cell |-> NoCell]

\* new S2Cell(cellId)
S2Cell(a) ==
  IF ~supportsBigInt THEN Error("RuntimeError", "S2 required BigInt support")
  ELSE IF ~defined(a) THEN Error("DeveloperError", "cell ID is required.")
  ELSE IF ~isValidId(a.val) THEN Error("DeveloperError", "cell ID is invalid.")
  ELSE [throws |-> "", msg |-> "",
        cell |-> [cellId |-> a.val, level |-> getLevel(a.val).level]]

\* S2Cell.fromToken(token).  Where the global BigInt is not defined the first
\* BigInt(...) call, in getIdFromToken under isValidToken, is a ReferenceError.
fromToken(token) ==
  IF ~TokenRegexTest(token) THEN Error("DeveloperError", "token is invalid.")
  ELSE IF ~hostBigInt THEN Error("ReferenceError", "BigInt is not defined")
  ELSE IF ~isValidToken(token) THEN Error("DeveloperError", "token is invalid.")
  ELSE S2Cell(BigIntArg(getIdFromToken(token).val))

\* getChild without the test for a leaf cell.
getChildNoLeafTest(c, index) ==
  IF index < 0 \/ index > 3
  THEN Error("DeveloperError", "child index must be in the range [0-3].")
  ELSE LET newLsb == Shr(lsb(c.cellId), 2)
           childCellId == Add(c.cellId, Mul(BigInt(2 * index + 1 - 4), newLsb))
       IN  S2Cell(BigIntArg(childCellId))

\* S2Cell.prototype.getChild(index) on the cell c
getChild(c, index) ==
  IF index < 0 \/ index > 3
  THEN Error("DeveloperError", "child index must be in the range [0-3].")
  ELSE IF c.level = 30 THEN Error("DeveloperError", "cannot get child of leaf cell.")
  ELSE LET newLsb == Shr(lsb(c.cellId), 2)
           childCellId == Add(c.cellId, Mul(BigInt(2 * index + 1 - 4), newLsb))
       IN  S2Cell(BigIntArg(childCellId))

\* getParent masking with ~newLsb instead of -newLsb (the "+ 1" left out).
getParentMaskNotNegated(c) ==
  IF c.level = 0 THEN Error("DeveloperError", "cannot get parent of root cell.")
  ELSE LET newLsb == Shl(lsb(c.cellId), 2)
       IN  S2Cell(BigIntArg(Or(And(c.cellId, Not(newLsb)), newLsb)))

\* S2Cell.prototype.getParent() on the cell c
getParent(c) ==
  IF c.level = 0 THEN Error("DeveloperError", "cannot get parent of root cell.")
  ELSE LET newLsb == Shl(lsb(c.cellId), 2)
       IN  S2Cell(BigIntArg(Or(And(c.cellId, Add(Not(newLsb), BigInt(1))), newLsb)))

-----------------------------------------------------------------------------
(* Numbers: 32-bit operators and conversions *)

\* ToInt32: the low 32 bits, read as a signed 32-bit integer.
ToInt32(x) ==
  [bits |-> {b \in x.bits : b < 31} \cup (IF 31 \in x.bits THEN {b \in Bit : b >= 31} ELSE {}),
   neg |-> 31 \in x.bits]

\* a << n on Numbers: a 32-bit shift by n mod 32, the result a signed 32-bit integer.
ShiftLeft32(a, n) == ToInt32(Shl(ToInt32(a), n % 32))

\* Number(x) of a BigInt x that fits a small non-negative integer.
RECURSIVE SumOfBits(_)
SumOfBits(bits) ==
  IF bits = {} THEN 0
  ELSE LET b == LowestBit(bits) IN 2 ^ b + SumOfBits(bits \ {b})

NumberOf(x) == SumOfBits(x.bits)

\* Number(x) & 1 for a non-negative BigInt x.  Number(x) is exact below 2^53;
\* from 2^53 on it is x rounded to 53 significant bits, an even number.
NumberAnd1(x) ==
  IF x.bits = {} THEN 0
  ELSE IF HighestBit(x.bits) < 53 THEN (IF 0 \in x.bits THEN 1 ELSE 0)
  ELSE 0

\* a ^ b on small non-negative integers
RECURSIVE BitXor(_, _)
BitXor(a, b) ==
  IF a = 0 /\ b = 0 THEN 0
  ELSE ((a + b) % 2) + 2 * BitXor(a \div 2, b \div 2)

\* undefined, as a value that may hold a number: <<>>, where <<n>> holds n
Undefined == <<>>

\* r[k] where r is a Number: a Number has no indexed properties.
PropertyOfNumber(r, k) == Undefined

\* The operand conversion of >> and &: undefined becomes 0.
ToInt32OrZero(v) == IF v = Undefined THEN 0 ELSE v[1]

\* 1 << (S2MaxLevel + 1), a 32-bit signed shift
S2MaxSiTi == ShiftLeft32(BigInt(1), S2MaxLevel + 1)

-----------------------------------------------------------------------------
(* Lookup tables *)

\* The writes generateLookupCell makes, in the order it makes them: each leaf
\* of the recursion sets S2LookupPositions[posKey] = posVal and
\* S2LookupIJ[ijKey] = ijVal.
RECURSIVE generateLookupCell(_, _, _, _, _, _)
generateLookupCell(level, i, j, originalOrientation, position, orientation) ==
  IF level = S2LookupBits
  THEN LET ij == i * (2 ^ S2LookupBits) + j
       IN  << [posKey |-> ij * 4 + originalOrientation,
               posVal |-> position * 4 + orientation,
               ijKey |-> position * 4 + originalOrientation,
               ijVal |-> ij * 4 + orientation] >>
  ELSE LET level1 == level + 1
           i1 == i * 2
           j1 == j * 2
           position1 == position * 4
           r == S2PosToOrientationMask[orientation + 1]
           Sub_(n) ==
             generateLookupCell(
               level1,
               i1 + (ToInt32OrZero(PropertyOfNumber(r, n)) \div 2),
               j1 + (ToInt32OrZero(PropertyOfNumber(r, n)) % 2),
               originalOrientation,
               position1 + n,
               BitXor(orientation, S2PosToOrientationMask[n + 1]))
       IN  Sub_(0) \o Sub_(1) \o Sub_(2) \o Sub_(3)

generateLookupTable ==
  generateLookupCell(0, 0, 0, 0, 0, 0)
    \o generateLookupCell(0, 0, 0, S2SwapMask, 0, S2SwapMask)
    \o generateLookupCell(0, 0, 0, S2InvertMask, 0, S2InvertMask)
    \o generateLookupCell(0, 0, 0, S2SwapMask + S2InvertMask, 0, S2SwapMask + S2InvertMask)

\* An array after the writes array[keys[n]] = vals[n], n = 1, 2, ...: the last
\* write to an index stands.
LastWrite(keys, k) == CHOOSE n \in DOMAIN keys : keys[n] = k /\ \A m \in DOMAIN keys : keys[m] = k => m <= n

AfterWrites(array, keys, vals) ==
  [k \in DOMAIN array \cup {keys[n] : n \in DOMAIN keys} |->
     IF \E n \in DOMAIN keys : keys[n] = k THEN vals[LastWrite(keys, k)] ELSE array[k]]

\* The two tables once generateLookupTable() has run on the empty arrays.
GeneratedLookupPositions ==
  LET w == generateLookupTable
  IN  AfterWrites([k \in {} |-> 0], [n \in DOMAIN w |-> w[n].posKey],
                  [n \in DOMAIN w |-> w[n].posVal])

GeneratedLookupIJ ==
  LET w == generateLookupTable
  IN  AfterWrites([k \in {} |-> 0], [n \in DOMAIN w |-> w[n].ijKey],
                  [n \in DOMAIN w |-> w[n].ijVal])

\* array.length: one more than the highest index, 0 for []
Length(array) == IF DOMAIN array = {} THEN 0 ELSE HighestBit(DOMAIN array) + 1

-----------------------------------------------------------------------------
(* Decoding an identifier *)

\* The loop of getFaceIJOrientation from group k down to group 0.
RECURSIVE FaceIJLoop(_, _, _, _, _, _)
FaceIJLoop(cellId, lookupIJ, k, i, j, bits) ==
  IF k < 0 THEN [i |-> i, j |-> j, bits |-> bits]
  ELSE LET nBits == IF k = 7 THEN S2MaxLevel - 7 * S2LookupBits ELSE S2LookupBits
           mask == (2 ^ (2 * nBits - 1)) * 4
           bits1 == bits + NumberOf(And(Shr(cellId, k * 2 * S2LookupBits + 1), BigInt(mask)))
           bits2 == bits1 + lookupIJ[bits1]
           i1 == Add(i, ShiftLeft32(BigInt(bits2 \div (2 ^ (S2LookupBits + 2))),
                                    k * S2LookupBits))
           j1 == Add(j, ShiftLeft32(BigInt((bits2 \div 4) % (2 ^ S2LookupBits)),
                                    k * S2LookupBits))
       IN  FaceIJLoop(cellId, lookupIJ, k - 1, i1, j1, bits2 % 4)

\* getFaceIJOrientation(cellId), the orientation argument left out: [i, j, face]
getFaceIJOrientation(cellId, lookupIJ) ==
  LET face == NumberOf(Shr(cellId, S2PositionBits))
      end == FaceIJLoop(cellId, lookupIJ, 7, Zero, Zero, face % 2)
  IN  [i |-> end.i, j |-> end.j, face |-> face]

\* getFaceSiTi(cellId): <<face, si, ti>>
getFaceSiTi(cellId, lookupIJ) ==
  LET faceIJOrientation == getFaceIJOrientation(cellId, lookupIJ)
      i == faceIJOrientation.i
      j == faceIJOrientation.j
      face == faceIJOrientation.face
      delta ==
        IF getLevel(cellId).level = 30 THEN 1
        ELSE IF ~IsZero(Xor(ToInt32(i), BigInt(NumberAnd1(Shr(cellId, 2))))) THEN 2
        ELSE 0
  IN  <<face, Add(Shl(i, 1), BigInt(delta)), Add(Shl(j, 1), BigInt(delta))>>

-----------------------------------------------------------------------------
(* Coordinates.  A real number is a fraction [num, den] of integers with    *)
(* den > 0; the arithmetic is exact where the code's is in double precision. *)

Fraction(n) == [num |-> BigInt(n), den |-> BigInt(1)]

Minus(q) == [num |-> Neg(q.num), den |-> q.den]

\* (1.0 / S2MaxSiTi) * si
SiTitoST(si) ==
  IF S2MaxSiTi.neg THEN [num |-> Neg(si), den |-> Neg(S2MaxSiTi)]
  ELSE [num |-> si, den |-> S2MaxSiTi]

STtoUV(s) ==
  LET den2 == Mul(s.den, s.den)
      den3 == Add(den2, Shl(den2, 1))
      c == Sub(s.den, s.num)
  IN  IF ~Less(Shl(s.num, 1), s.den)
      THEN [num |-> Sub(Shl(Mul(s.num, s.num), 2), den2), den |-> den3]
      ELSE [num |-> Sub(den2, Shl(Mul(c, c), 2)), den |-> den3]

FaceUVtoXYZ(face, u, v) ==
  CASE face = 0 -> <<Fraction(1), u, v>>
    [] face = 1 -> <<Minus(u), Fraction(1), v>>
    [] face = 2 -> <<Minus(u), Minus(v), Fraction(1)>>
    [] face = 3 -> <<Fraction(-1), Minus(v), Minus(u)>>
    [] face = 4 -> <<v, Fraction(-1), Minus(u)>>
    [] OTHER -> <<v, u, Fraction(-1)>>

FaceSiTitoXYZ(face, si, ti) ==
  LET u == STtoUV(SiTitoST(si))
      v == STtoUV(SiTitoST(ti))
  IN  FaceUVtoXYZ(face, u, v)

getS2Center(cellId, lookupIJ) ==
  LET faceSiTi == getFaceSiTi(cellId, lookupIJ)
  IN  FaceSiTitoXYZ(faceSiTi[1], faceSiTi[2], faceSiTi[3])

-----------------------------------------------------------------------------
(* The vector and ellipsoid types getCenter uses. They are defined outside
   this file; they are modelled from their description: normalization to unit
   length, the geodetic point of a vector on an ellipsoid, and the point of an
   ellipsoid a geodetic point denotes. Lengths and angles are irrational, so
   a unit vector is held as the direction it points along, and a geodetic
   point as the direction of its surface normal and its height. *)

Ellipsoid_UNIT_SPHERE == [name |-> "UNIT_SPHERE", sphere |-> TRUE]

Ellipsoid_WGS84 == [name |-> "WGS84", sphere |-> FALSE]

\* Cartesian3.normalize(cartesian, result): the vector of length 1 along
\* cartesian. The vectors of getCenter have a component of 1 or -1, never
\* length 0.
Cartesian3_normalize(cartesian) == [along |-> cartesian, magnitude |-> Fraction(1)]

\* Cartographic.fromCartesian(cartesian, ellipsoid) on a sphere of radius 1:
\* the surface normal points along the vector, and the height is what the
\* length of the vector exceeds the radius by.
Cartographic_fromCartesian(cartesian, ellipsoid) ==
  [normal |-> cartesian.along,
   height |-> [num |-> Sub(cartesian.magnitude.num, cartesian.magnitude.den),
               den |-> cartesian.magnitude.den]]

\* Cartographic.toCartesian(cartographic, ellipsoid, result): the point of the
\* ellipsoid's surface whose normal is the geodetic point's, raised by its
\* height.
Cartographic_toCartesian(cartographic, ellipsoid) ==
  [ellipsoid |-> ellipsoid.name, normal |-> cartographic.normal,
   height |-> cartographic.height]

-----------------------------------------------------------------------------
(* Inputs *)

\* Longest chain of getChild/getParent results followed from a constructed cell.
MaxNav == 2

\* Number of bit positions above the 61 position bits that inputs may set.
TopBits == 4

\* The integer with exactly the bits of S set.
Bits(S) == [bits |-> S, neg |-> FALSE]

\* Position bits set above the lowest set bit: none, all, or every third one.
PathPatterns ==
  { {}, {b \in 0..(S2PositionBits - 1) : TRUE},
    {b \in 0..(S2PositionBits - 1) : b % 3 = 0} }

\* Bits at and above position 61: every pattern of TopBits bits.
TopPatterns == SUBSET (S2PositionBits..(S2PositionBits + TopBits - 1))

\* Identifiers for the codec: every lowest-set-bit position, with the paths and
\* top patterns above it; zero; and the negatives of the one-bit values.
CodecIds ==
  {Bits({p} \cup {b \in path \cup top : b > p}) :
     p \in 0..(S2PositionBits + TopBits - 1), path \in PathPatterns, top \in TopPatterns}
  \cup {Zero}
  \cup {Neg(Pow2(p)) : p \in 0..(S2PositionBits + TopBits - 1)}

\* The root cell of face f: f * 2^61 + 2^60.
FaceRootId(f) == Add(Shl(BigInt(f), S2PositionBits), Pow2(S2PositionBits - 1))

\* Arguments handed to the constructor: valid identifiers at levels 0, 1, 15,
\* 29 and 30, invalid ones (zero, negative, lowest set bit at an odd position,
\* face 6, beyond 64 bits) and a missing argument.
ConstructArgs ==
  {BigIntArg(x) :
     x \in { FaceRootId(0), FaceRootId(5), Pow2(58),
             Add(FaceRootId(3), Add(Pow2(45), Pow2(30))),
             Add(FaceRootId(1), Pow2(2)),
             Add(Pow2(62), BigInt(1)),
             Zero, BigInt(-1), Pow2(59), FaceRootId(6),
             Add(Pow2(S2PositionBits + TopBits - 1), Pow2(60)) }}
  \cup {UndefinedArg}

\* Tokens handed to fromToken: well-formed and valid, upper case, the "X"
\* placeholder, non-hexadecimal, empty, an invalid identifier, 17 characters.
Tokens ==
  { Str("1"), Str("3"), Str("04"), Str("89c25c"), Str("89C25C"), Str("X"),
    Str("zz"), Str(""), Str("8"), Str("10000000000000000") }

ChildIndexes == -1..4

\* Strings handed to getIdFromToken directly: 16 characters that end in white
\* space (a space, LF, a space and a TAB, VT, U+3000 and U+FEFF), a shorter one
\* that does, white space alone, "X", and 17 characters.
CodecTokens ==
  { Str("123456789abcdef "),
    Str("100000000000000") \o <<10>>,
    Str("12345678901234 ") \o <<9>>,
    Str("123456789abcdef") \o <<11>>,
    Str("12345678901234") \o <<12288, 65279>>,
    Str("1 "),
    [k \in 1..16 |-> 32],
    Str("X"),
    Str("10000000000000000") }

-----------------------------------------------------------------------------
(* State machine of the cell objects: construction and navigation *)

NoCall == [op |-> "none"]

NoFrom == [op |-> "none", index |-> 0, recv |-> NoCell]

\* [] : an array with no element
EmptyArray == [k \in {} |-> 0]

\* The detection answers true only where BigInt exists; it may answer false
\* where BigInt exists (a host that switches the feature off).
Init ==
  /\ hostBigInt \in BOOLEAN
  /\ detectsBigInt \in BOOLEAN
  /\ detectsBigInt => hostBigInt
  /\ cell = NoCell
  /\ from = NoFrom
  /\ depth = 0
  /\ ret = NoCall
  /\ arg = Zero
  /\ S2LookupPositions = EmptyArray
  /\ S2LookupIJ = EmptyArray

\* ret = new S2Cell(a)
Construct(a) ==
  /\ cell = NoCell
  /\ ret' = [op |-> "new", index |-> 0, recv |-> NoCell, arg |-> a, out |-> S2Cell(a)]
  /\ UNCHANGED <<hostBigInt, detectsBigInt, cell, from, depth, arg, S2LookupPositions, S2LookupIJ>>

\* ret = S2Cell.fromToken(t)
FromToken(t) ==
  /\ cell = NoCell
  /\ ret' = [op |-> "fromToken", index |-> 0, recv |-> NoCell, token |-> t,
             out |-> fromToken(t)]
  /\ UNCHANGED <<hostBigInt, detectsBigInt, cell, from, depth, arg, S2LookupPositions, S2LookupIJ>>

\* ret = cell.getChild(index)
GetChild(index) ==
  /\ cell # NoCell
  /\ ret' = [op |-> "getChild", index |-> index, recv |-> cell,
             out |-> getChild(cell, index)]
  /\ UNCHANGED <<hostBigInt, detectsBigInt, cell, from, depth, arg, S2LookupPositions, S2LookupIJ>>

\* ret = cell.getParent()
GetParent ==
  /\ cell # NoCell
  /\ ret' = [op |-> "getParent", index |-> 0, recv |-> cell, out |-> getParent(cell)]
  /\ UNCHANGED <<hostBigInt, detectsBigInt, cell, from, depth, arg, S2LookupPositions, S2LookupIJ>>

IsNavigation(op) == op \in {"getChild", "getParent"}

\* The caller goes on with the cell the last call returned: cell = ret.
Adopt ==
  /\ ret.op \in {"new", "fromToken", "getChild", "getParent"}
  /\ ret.out.throws = ""
  /\ IsNavigation(ret.op) => depth < MaxNav
  /\ cell' = ret.out.cell
  /\ from' = [op |-> ret.op, index |-> ret.index, recv |-> ret.recv]
  /\ depth' = IF IsNavigation(ret.op) THEN depth + 1 ELSE 0
  /\ UNCHANGED <<hostBigInt, detectsBigInt, ret, arg, S2LookupPositions, S2LookupIJ>>

Next ==
  \/ \E a \in ConstructArgs : Construct(a)
  \/ \E t \in Tokens : FromToken(t)
  \/ \E index \in ChildIndexes : GetChild(index)
  \/ GetParent
  \/ Adopt

Spec == Init /\ [][Next]_vars

-----------------------------------------------------------------------------
(* State machine of the static codec functions on one identifier *)

InitCodec ==
  /\ hostBigInt = TRUE
  /\ detectsBigInt = TRUE
  /\ cell = NoCell
  /\ from = NoFrom
  /\ depth = 0
  /\ ret = NoCall
  /\ arg \in CodecIds
  /\ S2LookupPositions = EmptyArray
  /\ S2LookupIJ = EmptyArray

\* ret = S2Cell.isValidId(arg)
CallIsValidId ==
  /\ ret' = [op |-> "isValidId", bool |-> isValidId(arg)]
  /\ UNCHANGED <<hostBigInt, detectsBigInt, cell, from, depth, arg, S2LookupPositions, S2LookupIJ>>

\* ret = S2Cell.getLevel(arg)
CallGetLevel ==
  /\ ret' = [op |-> "getLevel", lvl |-> getLevel(arg)]
  /\ UNCHANGED <<hostBigInt, detectsBigInt, cell, from, depth, arg, S2LookupPositions, S2LookupIJ>>

\* ret = S2Cell.getTokenFromId(arg)
CallGetTokenFromId ==
  /\ ret' = [op |-> "getTokenFromId", token |-> getTokenFromId(arg)]
  /\ UNCHANGED <<hostBigInt, detectsBigInt, cell, from, depth, arg, S2LookupPositions, S2LookupIJ>>

\* ret = S2Cell.getIdFromToken(token), token the string getTokenFromId returned
CallGetIdFromToken ==
  /\ ret.op = "getTokenFromId"
  /\ ret' = [op |-> "getIdFromToken", token |-> ret.token, ofArg |-> TRUE,
             res |-> getIdFromToken(ret.token)]
  /\ UNCHANGED <<hostBigInt, detectsBigInt, cell, from, depth, arg, S2LookupPositions, S2LookupIJ>>

\* ret = S2Cell.getIdFromToken(token), token a string of the caller
CallGetIdFromTokenOn(token) ==
  /\ ret' = [op |-> "getIdFromToken", token |-> token, ofArg |-> FALSE,
             res |-> getIdFromToken(token)]
  /\ UNCHANGED <<hostBigInt, detectsBigInt, cell, from, depth, arg, S2LookupPositions, S2LookupIJ>>

NextCodec ==
  \/ CallIsValidId
  \/ CallGetLevel
  \/ CallGetTokenFromId
  \/ CallGetIdFromToken
  \/ \E token \in CodecTokens : CallGetIdFromTokenOn(token)

SpecCodec == InitCodec /\ [][NextCodec]_vars

-----------------------------------------------------------------------------
(* State machine of getCenter: a cell is constructed, then its center taken *)

\* Lowest-set-bit positions of the cells whose center is taken.
CenterMarkers == {0, 2, 20, 40, 58, 60}

\* Valid identifiers on the six faces, at the levels of CenterMarkers.
CenterArgs ==
  {BigIntArg(Add(Shl(BigInt(f), S2PositionBits), Bits({p} \cup {b \in path : b > p}))) :
     f \in 0..5, p \in CenterMarkers, path \in PathPatterns}

InitCenter ==
  /\ hostBigInt = TRUE
  /\ detectsBigInt = TRUE
  /\ cell = NoCell
  /\ from = NoFrom
  /\ depth = 0
  /\ ret = NoCall
  /\ arg = Zero
  /\ S2LookupPositions = EmptyArray
  /\ S2LookupIJ = EmptyArray

\* ret = cell.getCenter(): the first call builds the lookup tables. s2Center is
\* what getS2Center returned, center the same variable after it was normalized
\* in place, out the value getCenter returns.
GetCenter ==
  /\ cell # NoCell
  /\ LET build == Length(S2LookupPositions) = 0
         positions == IF build THEN GeneratedLookupPositions ELSE S2LookupPositions
         ij == IF build THEN GeneratedLookupIJ ELSE S2LookupIJ
     IN  \E faceSiTi \in {getFaceSiTi(cell.cellId, ij)} :
         \E s2Center \in {getS2Center(cell.cellId, ij)} :
         \E center \in {Cartesian3_normalize(s2Center)} :
         \E cartographic \in {Cartographic_fromCartesian(center, Ellipsoid_UNIT_SPHERE)} :
           /\ S2LookupPositions' = positions
           /\ S2LookupIJ' = ij
           /\ ret' = [op |-> "getCenter", index |-> 0, recv |-> cell,
                      faceIJ |-> getFaceIJOrientation(cell.cellId, ij),
                      faceSiTi |-> faceSiTi,
                      st |-> <<SiTitoST(faceSiTi[2]), SiTitoST(faceSiTi[3])>>,
                      uv |-> <<STtoUV(SiTitoST(faceSiTi[2])), STtoUV(SiTitoST(faceSiTi[3]))>>,
                      s2Center |-> s2Center,
                      center |-> center,
                      cartographic |-> cartographic,
                      out |-> Cartographic_toCartesian(cartographic, Ellipsoid_WGS84)]
  /\ UNCHANGED <<hostBigInt, detectsBigInt, cell, from, depth, arg>>

NextCenter ==
  \/ \E a \in CenterArgs : Construct(a)
  \/ Adopt
  \/ GetCenter

SpecCenter == InitCenter /\ [][NextCenter]_vars

-----------------------------------------------------------------------------
(* What the specification says of an identifier, stated on its bits *)

\* id >> 61 is at most 5: no bit at 64 or above, and bits 61..63 spell 0..5.
FaceBitsAtMost5(x) ==
  /\ \A b \in x.bits : b < 64
  /\ (IF 61 \in x.bits THEN 1 ELSE 0) + (IF 62 \in x.bits THEN 2 ELSE 0)
       + (IF 63 \in x.bits THEN 4 ELSE 0) <= 5

\* The lowest set bit is at one of the even positions 0, 2, ..., 60.
MarkerAtEvenPosition(x) ==
  /\ x.bits # {}
  /\ LowestBit(x.bits) % 2 = 0
  /\ LowestBit(x.bits) <= 60

ValidIdentifier(x) ==
  /\ ~x.neg
  /\ x.bits # {}
  /\ FaceBitsAtMost5(x)
  /\ MarkerAtEvenPosition(x)

-----------------------------------------------------------------------------
(* Claims on the codec, checked under SpecCodec *)

\* C1: for every valid identifier id, getIdFromToken(getTokenFromId(id)) = id,
\* identifiers on face 0 with a zero top hexadecimal digit included; and the
\* token of id = 0 is exactly "X".
C1_TokenRoundTrip ==
  /\ (ret.op = "getIdFromToken" /\ ret.ofArg /\ ValidIdentifier(arg)) => ret.res = Returns(arg)
  /\ (ret.op = "getTokenFromId" /\ arg = Zero) => ret.token = LiteralX

\* C3: isValidId(id) is true exactly when id > 0, the face bits id >> 61 are at
\* most 5 and the lowest set bit is at an even position 0..60; this for zero,
\* negative values and values of 2^64 or more as well.
C3_IsValidIdCharacterised ==
  ret.op = "isValidId" => (ret.bool <=> ValidIdentifier(arg))

\* isValidId has answered true for a face-5 leaf, false for a value of 2^64 or
\* more: here the first.
C3_Witness ==
  /\ ret.op = "isValidId"
  /\ ret.bool
  /\ {0, 61, 63} \subseteq arg.bits

-----------------------------------------------------------------------------
(* Claims on the cells, checked under Spec *)

Failed == ret.out.throws # ""

\* C2: for a valid cell c of level < 30 and an index i in 0..3,
\* c.getChild(i).getParent() has the identifier and the level of c.
C2_ParentOfChild ==
  (/\ ret.op = "getParent"
   /\ ret.recv = cell
   /\ from.op = "getChild")
  => (/\ from.index \in 0..3
      /\ from.recv.level < 30
      /\ ~Failed
      /\ ret.out.cell.cellId = from.recv.cellId
      /\ ret.out.cell.level = from.recv.level)

\* The parent of a leaf child (level 30) of a level-29 cell has been taken.
C2_Witness ==
  /\ ret.op = "getParent"
  /\ ret.recv = cell
  /\ from.op = "getChild"
  /\ from.index = 3
  /\ from.recv.level = 29
  /\ ret.out.cell = from.recv

\* C4: getChild on a level-30 cell fails, getParent on a level-0 cell fails,
\* getChild with an index outside 0..3 fails; a failure returns no cell and
\* leaves the receiver as it was; in every other case the call returns a cell
\* whose identifier is valid.
C4_NavigationFailures ==
  IsNavigation(ret.op) =>
    LET mustFail ==
          \/ ret.op = "getChild" /\ ret.recv.level = 30
          \/ ret.op = "getParent" /\ ret.recv.level = 0
          \/ ret.op = "getChild" /\ ret.index \notin 0..3
    IN  /\ mustFail => Failed
        /\ Failed => ret.out.cell = NoCell /\ cell = ret.recv
        /\ ~mustFail => ~Failed /\ ValidIdentifier(ret.out.cell.cellId)

\* getChild with a good index has failed on a leaf cell.
C4_Witness ==
  /\ ret.op = "getChild"
  /\ ret.index = 2
  /\ ret.recv.level = 30
  /\ Failed
  /\ cell = ret.recv

\* C5: on a host without 64-bit integers every construction attempt, by
\* new S2Cell(cellId) with any argument or by fromToken(token) with any
\* string, fails with RuntimeError and never with a validation error.
C5_UnsupportedEnvironment ==
  (~detectsBigInt /\ ret.op \in {"new", "fromToken"})
    => ret.out.throws = "RuntimeError"

\* C7: the parent of a cell of level > 0 is one level up, a child of a cell of
\* level < 30 one level down, and the level stored in a returned cell is the
\* level its identifier encodes (lowest set bit at position 2 * (30 - level)),
\* within 0..30.
C7_Levels ==
  /\ (ret.op = "getParent" /\ ret.recv.level > 0)
       => ~Failed /\ ret.out.cell.level = ret.recv.level - 1
  /\ (ret.op = "getChild" /\ ret.recv.level < 30 /\ ret.index \in 0..3)
       => ~Failed /\ ret.out.cell.level = ret.recv.level + 1
  /\ (ret.op \in {"new", "fromToken", "getChild", "getParent"} /\ ~Failed)
       => /\ ret.out.cell.level \in 0..30
          /\ LowestBit(ret.out.cell.cellId.bits) = 2 * (30 - ret.out.cell.level)

\* A child at the leaf level and, one step on, its parent at level 29.
C7_Witness ==
  /\ ret.op = "getParent"
  /\ ret.recv.level = 30
  /\ ret.out.cell.level = 29
  /\ from.op = "getChild"

-----------------------------------------------------------------------------
(* The tables and the decode the specification describes *)

\* The recursion of the table generator with the (I, J) offset of sub-quadrant
\* n taken from S2PosToIJ[orientation][n].
RECURSIVE ReferenceLookupCell(_, _, _, _, _, _)
ReferenceLookupCell(level, i, j, originalOrientation, position, orientation) ==
  IF level = S2LookupBits
  THEN LET ij == i * (2 ^ S2LookupBits) + j
       IN  << [posKey |-> ij * 4 + originalOrientation,
               posVal |-> position * 4 + orientation,
               ijKey |-> position * 4 + originalOrientation,
               ijVal |-> ij * 4 + orientation] >>
  ELSE LET r == S2PosToIJ[orientation + 1]
           Sub_(n) ==
             ReferenceLookupCell(
               level + 1, i * 2 + (r[n + 1] \div 2), j * 2 + (r[n + 1] % 2),
               originalOrientation, position * 4 + n,
               BitXor(orientation, S2PosToOrientationMask[n + 1]))
       IN  Sub_(0) \o Sub_(1) \o Sub_(2) \o Sub_(3)

ReferenceWrites ==
  ReferenceLookupCell(0, 0, 0, 0, 0, 0) \o ReferenceLookupCell(0, 0, 0, 1, 0, 1)
    \o ReferenceLookupCell(0, 0, 0, 2, 0, 2) \o ReferenceLookupCell(0, 0, 0, 3, 0, 3)

ReferenceLookupPositions ==
  [k \in {ReferenceWrites[n].posKey : n \in DOMAIN ReferenceWrites} |->
     ReferenceWrites[CHOOSE n \in DOMAIN ReferenceWrites : ReferenceWrites[n].posKey = k].posVal]

ReferenceLookupIJ ==
  [k \in {ReferenceWrites[n].ijKey : n \in DOMAIN ReferenceWrites} |->
     ReferenceWrites[CHOOSE n \in DOMAIN ReferenceWrites : ReferenceWrites[n].ijKey = k].ijVal]

\* The decode of groups k..0: the key is all 2 * nBits position bits of the
\* group, shifted left by 2, plus the running orientation; the inverse-table
\* entry gives the group's bits of I and J and the next orientation.
RECURSIVE ReferenceLoop(_, _, _, _, _)
ReferenceLoop(cellId, k, i, j, orientation) ==
  IF k < 0 THEN [i |-> i, j |-> j]
  ELSE LET nBits == IF k = 7 THEN 2 ELSE 4
           group == NumberOf(And(Shr(cellId, k * 8 + 1), BigInt(2 ^ (2 * nBits) - 1)))
           entry == ReferenceLookupIJ[group * 4 + orientation]
       IN  ReferenceLoop(cellId, k - 1,
                         i + (entry \div 64) * (2 ^ (4 * k)),
                         j + ((entry \div 4) % 16) * (2 ^ (4 * k)),
                         entry % 4)

\* The face of an identifier: id >> 61.
FaceOf(cellId) == NumberOf(Bits({b - 61 : b \in {c \in cellId.bits : c >= 61}}))

ReferenceDecode(cellId) == ReferenceLoop(cellId, 7, 0, 0, FaceOf(cellId) % 2)

-----------------------------------------------------------------------------
(* Claims on the tables and the center, checked under SpecCenter *)

\* C6: the root cell of face f, f * 2^61 + 2^60, has level 0 and getFaceSiTi
\* gives (f, 2^30, 2^30), so s = t = 1/2, u = v = 0 and the center before
\* normalisation is on the face's axis: one coordinate +1 or -1, two 0.
C6_FaceRootCenter ==
  \A f \in 0..5 :
    (ret.op = "getCenter" /\ ret.recv.cellId = FaceRootId(f)) =>
      /\ ret.recv.level = 0
      /\ ret.faceSiTi = <<f, Pow2(30), Pow2(30)>>
      /\ \A n \in 1..2 : Shl(ret.st[n].num, 1) = ret.st[n].den
      /\ \A n \in 1..2 : IsZero(ret.uv[n].num)
      /\ Cardinality({n \in 1..3 : IsZero(ret.s2Center[n].num)}) = 2
      /\ \E n \in 1..3 : ret.s2Center[n] \in {Fraction(1), Fraction(-1)}

\* C8: once generateLookupTable() has run both tables have 1024 entries and
\* are inverse of each other: S2LookupPositions[(((i<<4)+j)<<2)+o] is
\* (pos<<2)+o2 and S2LookupIJ[(pos<<2)+o] is (((i<<4)+j)<<2)+o2; they are the
\* tables of the recursion that takes the (I, J) offsets from S2PosToIJ.
C8_LookupTablesInverse ==
  ret.op = "getCenter" =>
    /\ DOMAIN S2LookupPositions = 0..1023
    /\ DOMAIN S2LookupIJ = 0..1023
    /\ \A i \in 0..15, j \in 0..15, o \in 0..3 :
         \E pos \in 0..255, o2 \in 0..3 :
           /\ S2LookupPositions[(i * 16 + j) * 4 + o] = pos * 4 + o2
           /\ S2LookupIJ[pos * 4 + o] = (i * 16 + j) * 4 + o2
    /\ S2LookupPositions = ReferenceLookupPositions
    /\ S2LookupIJ = ReferenceLookupIJ

\* C9: getFaceIJOrientation(id) of a valid id gives face = id >> 61 and the
\* (I, J) of the reference decode, in which every position bit takes part;
\* I and J lie in 0 .. 2^30 - 1.
C9_FaceIJDecode ==
  ret.op = "getCenter" =>
    /\ ret.faceIJ.face = FaceOf(ret.recv.cellId)
    /\ ~ret.faceIJ.i.neg /\ \A b \in ret.faceIJ.i.bits : b < 30
    /\ ~ret.faceIJ.j.neg /\ \A b \in ret.faceIJ.j.bits : b < 30
    /\ ret.faceIJ.i = BigInt(ReferenceDecode(ret.recv.cellId).i)
    /\ ret.faceIJ.j = BigInt(ReferenceDecode(ret.recv.cellId).j)

\* C10: S2MaxSiTi is +2^31, so SiTitoST(si) = si / 2^31: an si or ti in
\* 0 .. 2^31 goes to an s or t in 0 .. 1, never a negative one, and 2^30 to 1/2.
C10_ScaleConstant ==
  ret.op = "getCenter" =>
    /\ S2MaxSiTi = Pow2(31)
    /\ SiTitoST(Pow2(30)) = [num |-> Pow2(30), den |-> Pow2(31)]
    /\ \A n \in 1..2 :
         (~ret.faceSiTi[n + 1].neg /\ ~Less(Pow2(31), ret.faceSiTi[n + 1]))
           => /\ ret.st[n] = [num |-> ret.faceSiTi[n + 1], den |-> Pow2(31)]
              /\ ~ret.st[n].num.neg

====
